---- MODULE Spec2Model ----
(***************************************************************************)
(* Posture monitoring: the socket servers (backend/server.js and the two   *)
(* older revisions kept in unnamed/part_000) and the browser monitor       *)
(* (frontend/app.js).                                                      *)
(*                                                                         *)
(* Numbers.  Posture scores are fixed-point, in thousandths of a point     *)
(* (Pts(60) is the score 60); a keypoint's score is in tenths (0..10) and  *)
(* an analysis' confidence, the mean of three of them, in thirtieths       *)
(* (0..30); keypoint coordinates are in twentieths of the normalized frame *)
(* (0..20); angles are whole degrees; times are milliseconds.  A division  *)
(* that is not exact rounds down to the next thousandth, which stands for  *)
(* the rounding of the floating-point result.                              *)
(***************************************************************************)
EXTENDS Integers, Sequences, FiniteSets, TLC

VARIABLES
    program,        \* which program of the repository this run is of
    now,            \* the wall clock, Date.now()
    connected,      \* sockets whose connection is open (handlers registered)
    sessions,       \* the server's sessions Map
    lastProcessTime,\* part_000 (second revision): per connection, the rate limiter's time
    sent,           \* per socket: timestamps of the posture-alert events emitted on it
    emitted,        \* the events the last handler emitted
    reported,       \* per socket: the readings the client has sent on it, in order
    monitor,        \* frontend/app.js: the PostureMonitor object and its pending callbacks
    env             \* the clients and the clock: how much they have done so far

serverVars == <<connected, sessions, lastProcessTime, sent, reported>>

vars == <<program, now, connected, sessions, lastProcessTime, sent, emitted, reported,
          monitor, env>>

-----------------------------------------------------------------------------
(* Bounds of the model *)

StartTime == 1000000000
MaxFrames == 11
MaxRateFrames == 52
MaxSweepFrames == 3
MaxFrontFrames == 4
MaxPoseFrames == 3
MaxStreamFrames == 3
MaxChanges == 1
MaxLifeFrames == 4
MaxLifeEvents == 2
MaxIdleFrames == 2
MaxIdleTicks == 9

SocketIds == {"s1", "s2"}

\* the one socket of the runs that follow a single stream of frames
StreamIds == {"s1"}

Pts(n) == n * 1000

-----------------------------------------------------------------------------
(* JavaScript helpers *)

\* SliceLast that slices nothing off
SliceNothing(s, n) == s

\* Array.prototype.slice(-n): the last n elements (all of them if fewer)
SliceLast(s, n) ==
    IF Len(s) <= n THEN s ELSE SubSeq(s, Len(s) - n + 1, Len(s))

\* Array.prototype.filter(...).length
CountIf(s, P(_)) == Cardinality({i \in DOMAIN s : P(s[i])})

\* Map.prototype.set / Map.prototype.delete on a function with a finite domain
MapSet(m, k, v) == [x \in DOMAIN m \cup {k} |-> IF x = k THEN v ELSE m[x]]

\* MapDelete that deletes nothing
MapDeleteNothing(m, k) == m

\* MapDelete as Map.prototype.clear
MapDeleteAll(m, k) == [x \in {} |-> m[x]]

MapDelete(m, k) == [x \in DOMAIN m \ {k} |-> m[x]]

EmptyMap == [x \in {} |-> 0]

Abs(x) == IF x < 0 THEN -x ELSE x

Min(a, b) == IF a <= b THEN a ELSE b

Max(a, b) == IF a >= b THEN a ELSE b

\* n / d of two integers, d >= 0, as JavaScript's number division gives it:
\* a finite quotient kept as the pair, or Infinity, -Infinity, NaN
JsDiv(n, d) ==
    IF d > 0 THEN [kind |-> "finite", n |-> n, d |-> d]
    ELSE IF n > 0 THEN [kind |-> "Infinity", n |-> 1, d |-> 0]
    ELSE IF n < 0 THEN [kind |-> "-Infinity", n |-> -1, d |-> 0]
    ELSE [kind |-> "NaN", n |-> 0, d |-> 0]

\* q > tn / td and q < tn / td (td > 0); every comparison with NaN is false
JsGreater(q, tn, td) ==
    CASE q.kind = "finite" -> q.n * td > tn * q.d
      [] q.kind = "Infinity" -> TRUE
      [] OTHER -> FALSE

JsLess(q, tn, td) ==
    CASE q.kind = "finite" -> q.n * td < tn * q.d
      [] q.kind = "-Infinity" -> TRUE
      [] OTHER -> FALSE

RECURSIVE Pow10(_)
Pow10(n) == IF n = 0 THEN 1 ELSE 10 * Pow10(n - 1)

\* floor(a * 10^digits / b) for a >= 0, b > 0, by long division
RECURSIVE Frac(_, _, _)
Frac(a, b, digits) ==
    IF digits = 0 THEN a \div b
    ELSE (a \div b) * Pow10(digits) + Frac(10 * (a % b), b, digits - 1)

\* 10^4 * cos^2 of k degrees, k in 0..90
Cos2E4 ==
    <<10000, 9997, 9988, 9973, 9951, 9924, 9891, 9851, 9806, 9755, 9698, 9636,
      9568, 9494, 9415, 9330, 9240, 9145, 9045, 8940, 8830, 8716, 8597, 8473,
      8346, 8214, 8078, 7939, 7796, 7650, 7500, 7347, 7192, 7034, 6873, 6710,
      6545, 6378, 6210, 6040, 5868, 5696, 5523, 5349, 5174, 5000, 4826, 4651,
      4477, 4304, 4132, 3960, 3790, 3622, 3455, 3290, 3127, 2966, 2808, 2653,
      2500, 2350, 2204, 2061, 1922, 1786, 1654, 1527, 1403, 1284, 1170, 1060,
      955, 855, 760, 670, 585, 506, 432, 364, 302, 245, 194, 149, 109, 76, 49,
      27, 12, 3, 0>>

\* sign(cos k) * 10^4 * cos^2 k, k in 0..180
SignedCos2E4(k) == IF k <= 90 THEN Cos2E4[k + 1] ELSE -Cos2E4[180 - k + 1]

\* Math.acos(Math.max(-1, Math.min(1, dot / sqrt(m1sq * m2sq)))) * (180 / Math.PI),
\* rounded up to whole degrees: the least k with cos(angle) >= cos(k degrees)
AcosDegrees(dot, m1sq, m2sq) ==
    LET c2 == Min(10000, Frac(dot * dot, m1sq * m2sq, 4))
        signed == IF dot < 0 THEN -c2 ELSE c2
    IN  CHOOSE k \in 0..180 :
            /\ signed >= SignedCos2E4(k)
            /\ \A j \in 0..(k - 1) : signed < SignedCos2E4(j)

\* 1000 * tan((j - 1/2) degrees), j in 1..90
TanHalfE3 ==
    <<9, 26, 44, 61, 79, 96, 114, 132, 149, 167, 185, 203, 222, 240, 259, 277,
      296, 315, 335, 354, 374, 394, 414, 435, 456, 477, 499, 521, 543, 566, 589,
      613, 637, 662, 687, 713, 740, 767, 795, 824, 854, 885, 916, 949, 983, 1018,
      1054, 1091, 1130, 1171, 1213, 1257, 1303, 1351, 1402, 1455, 1511, 1570,
      1632, 1698, 1767, 1842, 1921, 2006, 2097, 2194, 2300, 2414, 2539, 2675,
      2824, 2989, 3172, 3376, 3606, 3867, 4165, 4511, 4915, 5396, 5976, 6691,
      7596, 8777, 10385, 12706, 16350, 22904, 38188, 114589>>

\* atan(p / q) for p, q >= 0, to the nearest whole degree (90 when q = 0)
AtanDegrees(p, q) == Cardinality({j \in 1..90 : p * 1000 >= TanHalfE3[j] * q})

\* Math.atan2(y, x) * 180 / Math.PI, to the nearest whole degree; atan2(0, 0) is 0
Atan2Degrees(y, x) ==
    LET a == AtanDegrees(Abs(y), Abs(x))
    IN  IF x = 0 /\ y = 0 THEN 0
        ELSE IF x >= 0 THEN (IF y >= 0 THEN a ELSE -a)
        ELSE IF y >= 0 THEN 180 - a ELSE -(180 - a)

\* Math.round(n / d) for n >= 0, d > 0
RoundDiv(n, d) == (2 * n + d) \div (2 * d)

-----------------------------------------------------------------------------
(* backend/server.js *)

SrvHistoryMax == 100
SrvRecent == 10
SrvPoorScore == 60
SrvAlertCount == 8

\* io.on('connection'): sessions.set(socket.id, {id, connectedAt, history: []})
SrvConnection(id) ==
    /\ sessions' = MapSet(sessions, id, [id |-> id, connectedAt |-> now, history |-> <<>>])
    /\ connected' = connected \cup {id}
    /\ sent' = [sent EXCEPT ![id] = <<>>]
    /\ reported' = [reported EXCEPT ![id] = <<>>]
    /\ emitted' = <<>>
    /\ UNCHANGED <<program, monitor, now, lastProcessTime>>

\* data.overallScore ?? 100
SrvScore(data) ==
    IF "overallScore" \in DOMAIN data THEN data.overallScore ELSE Pts(100)

\* SrvRecord without the shift
SrvRecordUnbounded(history, entry) == Append(history, entry)

\* session.history.push(...); if (length > 100) shift()
SrvRecord(history, entry) ==
    LET pushed == Append(history, entry)
    IN  IF Len(pushed) > SrvHistoryMax THEN Tail(pushed) ELSE pushed

\* last10.filter(h => h.score < 60).length
SrvPoorCount(history) ==
    LET last10 == SliceLast(history, SrvRecent)
        Poor(h) == h.score < Pts(SrvPoorScore)
    IN  CountIf(last10, Poor)

\* if (poorCount >= 8) socket.emit('posture-alert', ...)
SrvShouldAlert(history) == SrvPoorCount(history) >= SrvAlertCount

\* SrvSession as a get-or-create
SrvSessionOrNew(id) ==
    IF id \in DOMAIN sessions THEN <<sessions[id]>>
    ELSE <<[id |-> id, connectedAt |-> now, history |-> <<>>]>>

\* sessions.get(socket.id): <<session>>, or <<>> for undefined
SrvSession(id) == IF id \in DOMAIN sessions THEN <<sessions[id]>> ELSE <<>>

\* socket.on('posture-data'): the handler of socket id, run on `data`
SrvPostureData(id, data) ==
    /\ IF SrvSession(id) = <<>>
       THEN /\ emitted' = <<>>
            /\ UNCHANGED <<sessions, sent>>
       ELSE LET session == SrvSession(id)[1]
                history == SrvRecord(session.history,
                                     [ts |-> now, score |-> SrvScore(data)])
            IN  /\ sessions' = MapSet(sessions, id, [session EXCEPT !.history = history])
                /\ IF SrvShouldAlert(history)
                   THEN /\ emitted' = <<[event |-> "posture-alert", to |-> id,
                                         timestamp |-> now]>>
                        /\ sent' = [sent EXCEPT ![id] = Append(@, now)]
                   ELSE /\ emitted' = <<>>
                        /\ UNCHANGED sent
    /\ UNCHANGED <<program, monitor, now, connected, lastProcessTime>>

\* socket.on('disconnect'): sessions.delete(socket.id)
SrvDisconnect(id) ==
    /\ id \in connected
    /\ sessions' = MapDelete(sessions, id)
    /\ connected' = connected \ {id}
    /\ emitted' = <<>>
    /\ UNCHANGED <<program, monitor, now, lastProcessTime, sent, reported>>

-----------------------------------------------------------------------------
(* unnamed/part_000, second revision (lines 184-473): the server that       *)
(* analyzes the keypoints itself, with rate limiting and the idle sweep     *)

POSTURE_HISTORY_MAX == 50
ALERT_THRESHOLD == 6
MIN_PROCESS_INTERVAL == 100
MAX_SESSION_AGE == 1800000
SWEEP_PERIOD == 300000

\* keypoints.forEach(kp => { if (kp.score > 0.2) keypointMap[kp.name] = kp })
R2keypointMap(keypoints) ==
    [name \in {n \in DOMAIN keypoints : keypoints[n].score > 2} |-> keypoints[name]]

\* PostureAnalyzer.calculateAngle: the angle at point2, in degrees. The points
\* are in fortieths of the frame, so a magnitude below 0.001 is a squared
\* magnitude below (0.04)^2.
R2calculateAngle(point1, point2, point3) ==
    LET vector1 == [x |-> point1.x - point2.x, y |-> point1.y - point2.y]
        vector2 == [x |-> point3.x - point2.x, y |-> point3.y - point2.y]
        dotProduct == vector1.x * vector2.x + vector1.y * vector2.y
        magnitude1sq == vector1.x * vector1.x + vector1.y * vector1.y
        magnitude2sq == vector2.x * vector2.x + vector2.y * vector2.y
    IN  IF magnitude1sq * 10000 < 16 \/ magnitude2sq * 10000 < 16
        THEN 180
        ELSE AcosDegrees(dotProduct, magnitude1sq, magnitude2sq)

\* const results = { forwardHead: false, ..., overallScore: 100, confidence: 0 }
R2results ==
    [forwardHead |-> FALSE, roundedShoulders |-> FALSE, torsoLean |-> FALSE,
     overallScore |-> Pts(100), confidence |-> 0]

\* results.forwardHead: headForwardDistance > 0.12 + 0.1 * (1 - confidence),
\* the threshold being (66 - confidence) / 300 with confidence in thirtieths
R2forwardHead(m, confidence) ==
    LET hasEars == "left_ear" \in DOMAIN m /\ "right_ear" \in DOMAIN m
        headPoint2x == IF hasEars THEN m["left_ear"].x + m["right_ear"].x
                       ELSE 2 * m["nose"].x
        shoulderCenter2x == m["left_shoulder"].x + m["right_shoulder"].x
        shoulderWidth == Abs(m["left_shoulder"].x - m["right_shoulder"].x)
        headForwardDistance == JsDiv(headPoint2x - shoulderCenter2x, 2 * shoulderWidth)
    IN  JsGreater(headForwardDistance, 66 - confidence, 300)

\* results.roundedShoulders: hips seen, hipWidth > 0.05, shoulderWidth / hipWidth < 0.75
R2roundedShoulders(m) ==
    /\ "left_hip" \in DOMAIN m /\ "right_hip" \in DOMAIN m
    /\ LET shoulderWidth == Abs(m["left_shoulder"].x - m["right_shoulder"].x)
           hipWidth == Abs(m["left_hip"].x - m["right_hip"].x)
       IN  /\ hipWidth > 1
           /\ JsLess(JsDiv(shoulderWidth, hipWidth), 3, 4)

\* results.torsoLean: hips seen, leanAngle > 15
R2torsoLean(m) ==
    /\ "left_hip" \in DOMAIN m /\ "right_hip" \in DOMAIN m
    /\ LET shoulderCenter == [x |-> m["left_shoulder"].x + m["right_shoulder"].x,
                              y |-> m["left_shoulder"].y + m["right_shoulder"].y]
           torsoVector == [x |-> shoulderCenter.x - (m["left_hip"].x + m["right_hip"].x),
                           y |-> shoulderCenter.y - (m["left_hip"].y + m["right_hip"].y)]
           leanAngle == R2calculateAngle(
               [x |-> shoulderCenter.x + torsoVector.x, y |-> shoulderCenter.y + torsoVector.y],
               shoulderCenter,
               [x |-> shoulderCenter.x, y |-> shoulderCenter.y - 40])
       IN  leanAngle > 15

\* R2score without Math.max(0, ...)
R2scoreUnclamped(forwardHead, roundedShoulders, torsoLean, confidence) ==
    Pts(100)
    - Pts((IF forwardHead THEN 35 ELSE 0) + (IF roundedShoulders THEN 30 ELSE 0)
          + (IF torsoLean THEN 25 ELSE 0))
    - ((30 - confidence) * 20000) \div 30

\* Math.max(0, 100 - deductions - (1 - confidence) * 20)
R2score(forwardHead, roundedShoulders, torsoLean, confidence) ==
    LET deductions == (IF forwardHead THEN 35 ELSE 0)
                      + (IF roundedShoulders THEN 30 ELSE 0)
                      + (IF torsoLean THEN 25 ELSE 0)
        confidencePenalty == ((30 - confidence) * 20000) \div 30
    IN  Max(0, Pts(100) - Pts(deductions) - confidencePenalty)

\* R2smooth with smoothingFactor as the weight of both scores
R2smoothSameWeight(previousScore, score) == (3 * previousScore + 3 * score) \div 10

\* previousAnalysis.overallScore * 0.3 + results.overallScore * (1 - 0.3)
R2smooth(previousScore, score) == (3 * previousScore + 7 * score) \div 10

\* PostureAnalyzer.analyzePosture(keypoints, previousAnalysis); previousAnalysis
\* is <<>> for null and <<analysis>> otherwise
R2analyzePosture(keypoints, previousAnalysis) ==
    LET m == R2keypointMap(keypoints)
        hasRequiredPoints ==
            \A point \in {"nose", "left_shoulder", "right_shoulder"} : point \in DOMAIN m
    IN  IF ~hasRequiredPoints THEN R2results
        ELSE LET confidence == m["nose"].score + m["left_shoulder"].score
                               + m["right_shoulder"].score
                 forwardHead == R2forwardHead(m, confidence)
                 roundedShoulders == R2roundedShoulders(m)
                 torsoLean == R2torsoLean(m)
                 score == R2score(forwardHead, roundedShoulders, torsoLean, confidence)
             IN  [forwardHead |-> forwardHead,
                  roundedShoulders |-> roundedShoulders,
                  torsoLean |-> torsoLean,
                  overallScore |-> IF previousAnalysis # <<>> /\ confidence > 18
                                   THEN R2smooth(previousAnalysis[1].overallScore, score)
                                   ELSE score,
                  confidence |-> confidence]

\* R2stale with >= for >
R2staleAtMaxAge(session) == now - session.lastActivity >= MAX_SESSION_AGE

\* cleanupSessions, run by setInterval every 5 minutes
R2stale(session) == now - session.lastActivity > MAX_SESSION_AGE

R2cleanupSessions ==
    /\ sessions' = [id \in {i \in DOMAIN sessions : ~R2stale(sessions[i])} |-> sessions[id]]
    /\ emitted' = <<>>
    /\ UNCHANGED <<program, monitor, now, connected, lastProcessTime, sent, reported>>

\* the session io.on('connection') makes at time t
R2session(id, t) ==
    [id |-> id, connectedAt |-> t, lastActivity |-> t,
     postureHistory |-> <<>>, lastAnalysis |-> <<>>, frameCount |-> 0]

\* io.on('connection')
R2Connection(id) ==
    /\ sessions' = MapSet(sessions, id, R2session(id, now))
    /\ lastProcessTime' = [lastProcessTime EXCEPT ![id] = 0]
    /\ connected' = connected \cup {id}
    /\ sent' = [sent EXCEPT ![id] = <<>>]
    /\ reported' = [reported EXCEPT ![id] = <<>>]
    /\ emitted' = <<>>
    /\ UNCHANGED <<program, monitor, now>>

\* if (length >= POSTURE_HISTORY_MAX) shift(); push({timestamp: now, analysis})
R2record(postureHistory, entry) ==
    Append(IF Len(postureHistory) >= POSTURE_HISTORY_MAX
           THEN Tail(postureHistory) ELSE postureHistory,
           entry)

\* recentReadings.filter(r => r.analysis.overallScore < 60 && r.analysis.confidence > 0.5).length
R2poorPostureCount(postureHistory) ==
    LET recentReadings == SliceLast(postureHistory, 10)
        Poor(reading) == /\ reading.analysis.overallScore < Pts(60)
                         /\ reading.analysis.confidence > 15
    IN  CountIf(recentReadings, Poor)

\* R2shouldAlert without the check of every 10th frame
R2shouldAlertAnyFrame(session) ==
    /\ Len(session.postureHistory) >= 10
    /\ R2poorPostureCount(session.postureHistory) >= ALERT_THRESHOLD

\* frameCount % 10 === 0 && postureHistory.length >= 10 && poorPostureCount >= ALERT_THRESHOLD
R2shouldAlert(session) ==
    /\ session.frameCount % 10 = 0
    /\ Len(session.postureHistory) >= 10
    /\ R2poorPostureCount(session.postureHistory) >= ALERT_THRESHOLD

\* R2rateLimited with the limit taken out
R2rateLimitedNever(id) == FALSE

\* R2rateLimited with half the interval
R2rateLimitedHalf(id) == now - lastProcessTime[id] < MIN_PROCESS_INTERVAL \div 2

\* now - lastProcessTime < MIN_PROCESS_INTERVAL: skip the frame
R2rateLimited(id) == now - lastProcessTime[id] < MIN_PROCESS_INTERVAL

\* what the posture-data handler makes of the session at time t: lastActivity
\* and frameCount, then the try block; a payload without a keypoints array
\* throws in analyzePosture and the catch only logs
R2process(session, data, t) ==
    LET touched == [session EXCEPT !.lastActivity = t, !.frameCount = @ + 1]
    IN  IF "keypoints" \notin DOMAIN data THEN touched
        ELSE LET analysis == R2analyzePosture(data.keypoints, session.lastAnalysis)
             IN  [touched EXCEPT
                     !.lastAnalysis = <<analysis>>,
                     !.postureHistory =
                         R2record(@, [timestamp |-> t, analysis |-> analysis])]

\* R2sessionsGet making a session for an id the table does not hold
R2sessionsGetOrNew(id) ==
    IF id \in DOMAIN sessions THEN <<sessions[id]>> ELSE <<R2session(id, now)>>

\* sessions.get(socket.id): <<session>>, or <<>> for undefined
R2sessionsGet(id) ==
    IF id \in DOMAIN sessions THEN <<sessions[id]>> ELSE <<>>

\* socket.on('posture-data'): the handler of socket id, run on `data`
R2PostureData(id, data) ==
    /\ IF R2rateLimited(id)
       THEN /\ emitted' = <<>>
            /\ UNCHANGED <<sessions, lastProcessTime, sent>>
       ELSE /\ lastProcessTime' = [lastProcessTime EXCEPT ![id] = now]
            /\ IF R2sessionsGet(id) = <<>>
               THEN /\ emitted' = <<>>
                    /\ UNCHANGED <<sessions, sent>>
               ELSE LET session == R2process(R2sessionsGet(id)[1], data, now)
                        analysed == "keypoints" \in DOMAIN data
                        alert == analysed /\ R2shouldAlert(session)
                    IN  /\ sessions' = MapSet(sessions, id, session)
                        /\ emitted' =
                              (IF analysed
                               THEN <<[event |-> "posture-analysis", to |-> id,
                                       analysis |-> session.lastAnalysis[1]]>>
                               ELSE <<>>)
                              \o (IF alert
                                  THEN <<[event |-> "posture-alert", to |-> id,
                                          timestamp |-> now]>>
                                  ELSE <<>>)
                        /\ sent' = IF alert THEN [sent EXCEPT ![id] = Append(@, now)]
                                   ELSE sent
    /\ UNCHANGED <<program, monitor, now, connected>>

\* socket.on('disconnect'): sessions.delete(socket.id)
R2Disconnect(id) ==
    /\ id \in connected
    /\ sessions' = MapDelete(sessions, id)
    /\ connected' = connected \ {id}
    /\ emitted' = <<>>
    /\ UNCHANGED <<program, monitor, now, lastProcessTime, sent, reported>>

-----------------------------------------------------------------------------
(* frontend/app.js: class PostureMonitor.  Angles are in tenths of a degree. *)

ALERT_COOLDOWN == 120000
ALERT_HIDE_DELAY == 10000
MonitorHistoryMax == 10

\* canShowAlert(): Date.now() - this.stats.lastAlertTime > 120000
canShowAlert(m) == now - m.stats.lastAlertTime > ALERT_COOLDOWN

\* getKeypoint(keypoints, name): <<kp>> when found with score > confidenceThreshold
\* (0.5), <<>> for undefined
getKeypoint(keypoints, name) ==
    IF name \in DOMAIN keypoints /\ keypoints[name].score > 5
    THEN <<keypoints[name]>> ELSE <<>>

\* calculateNeckAngle(nose, leftShoulder, rightShoulder): |atan2(dx, dy)| in
\* degrees, the differences taken twice to keep the shoulder midpoint whole
calculateNeckAngle(nose, leftShoulder, rightShoulder) ==
    LET dx2 == 2 * nose.x - (leftShoulder.x + rightShoulder.x)
        dy2 == 2 * nose.y - (leftShoulder.y + rightShoulder.y)
    IN  10 * Abs(Atan2Degrees(dx2, dy2))

\* calculateShoulderSlope(leftShoulder, rightShoulder)
calculateShoulderSlope(leftShoulder, rightShoulder) ==
    LET dx == rightShoulder.x - leftShoulder.x
        dy == rightShoulder.y - leftShoulder.y
    IN  10 * Abs(Atan2Degrees(dy, dx))

\* calculateTorsoAngle(leftShoulder, leftHip, rightShoulder, rightHip)
calculateTorsoAngle(leftShoulder, leftHip, rightShoulder, rightHip) ==
    LET lv == [x |-> leftHip.x - leftShoulder.x, y |-> leftHip.y - leftShoulder.y]
        rv == [x |-> rightHip.x - rightShoulder.x, y |-> rightHip.y - rightShoulder.y]
    IN  Abs(5 * (Atan2Degrees(lv.y, lv.x) + Atan2Degrees(rv.y, rv.x)))

\* the baseline calibratePosture(poses) computes from poses[0], <<>> when a
\* keypoint it needs is not found
calibration(keypoints) ==
    LET nose == getKeypoint(keypoints, "nose")
        ls == getKeypoint(keypoints, "left_shoulder")
        rs == getKeypoint(keypoints, "right_shoulder")
        lh == getKeypoint(keypoints, "left_hip")
        rh == getKeypoint(keypoints, "right_hip")
    IN  IF nose # <<>> /\ ls # <<>> /\ rs # <<>> /\ lh # <<>> /\ rh # <<>>
        THEN <<[neckAngle |-> calculateNeckAngle(nose[1], ls[1], rs[1]),
                shoulderSlope |-> calculateShoulderSlope(ls[1], rs[1]),
                torsoAngle |-> calculateTorsoAngle(ls[1], lh[1], rs[1], rh[1])]>>
        ELSE <<>>

\* calibratePosture(poses): no-op when there is no pose or a baseline is set
calibratePosture(calibrationData, poses) ==
    IF poses = <<>> \/ calibrationData # <<>> THEN calibrationData
    ELSE calibration(poses[1])

\* return { overallScore: 0, confidence: 0, valid: false }
InvalidAssessment == [overallScore |-> 0, confidence |-> 0, valid |-> FALSE]

\* analyzePosture(pose) with this.calibrationData
analyzePosture(keypoints, calibrationData) ==
    LET nose == getKeypoint(keypoints, "nose")
        ls == getKeypoint(keypoints, "left_shoulder")
        rs == getKeypoint(keypoints, "right_shoulder")
        lh == getKeypoint(keypoints, "left_hip")
        rh == getKeypoint(keypoints, "right_hip")
    IN  IF nose = <<>> \/ ls = <<>> \/ rs = <<>> \/ lh = <<>> \/ rh = <<>>
        THEN InvalidAssessment
        ELSE LET neckAngle == calculateNeckAngle(nose[1], ls[1], rs[1])
                 shoulderSlope == calculateShoulderSlope(ls[1], rs[1])
                 torsoAngle == calculateTorsoAngle(ls[1], lh[1], rs[1], rh[1])
                 calibrated == calibrationData # <<>>
                 neckBase == IF calibrated THEN calibrationData[1].neckAngle ELSE 100
                 shoulderBase == IF calibrated THEN calibrationData[1].shoulderSlope ELSE 50
                 torsoBase == IF calibrated THEN calibrationData[1].torsoAngle ELSE 150
                 neckScore == Max(0, Pts(100) - Max(0, neckAngle - neckBase) * 800)
                 shoulderScore == Max(0, Pts(100) - shoulderSlope * 1000)
                 torsoScore == Max(0, Pts(100) - torsoAngle * 500)
                 rawScore == (4 * neckScore + 3 * shoulderScore + 3 * torsoScore) \div 10
                 confidence == Min(30, nose[1].score + ls[1].score + rs[1].score)
             IN  [overallScore |-> Pts(RoundDiv(rawScore * confidence, 30000)),
                  confidence |-> confidence,
                  valid |-> TRUE,
                  metrics |-> [forwardHead |-> neckAngle > neckBase + 50,
                               roundedShoulders |-> shoulderSlope > shoulderBase + 30,
                               torsoLean |-> torsoAngle > torsoBase + 80,
                               neckAngle |-> neckAngle,
                               shoulderSlope |-> shoulderSlope,
                               torsoAngle |-> torsoAngle]]

\* addToHistory(a): push, and shift when longer than 10
addToHistory(postureHistory, a) ==
    LET pushed == Append(postureHistory, a)
    IN  IF Len(pushed) > MonitorHistoryMax THEN Tail(pushed) ELSE pushed

RECURSIVE SumScores(_)
SumScores(s) == IF s = <<>> THEN 0 ELSE Head(s).overallScore + SumScores(Tail(s))

\* getSmoothedAnalysis(current): the analysis returned
smoothedAnalysis(postureHistory, current) ==
    IF ~current.valid \/ Len(postureHistory) < 3 THEN current
    ELSE LET avg == SumScores(postureHistory) \div Len(postureHistory)
         IN  [current EXCEPT !.overallScore = (7 * current.overallScore + 3 * avg) \div 10]

\* getSmoothedAnalysis(current): this.postureHistory afterwards
smoothedHistory(postureHistory, current) ==
    IF ~current.valid THEN postureHistory
    ELSE addToHistory(postureHistory, smoothedAnalysis(postureHistory, current))

\* showAlert(message): the monitor afterwards
showAlert(m) ==
    IF ~canShowAlert(m) THEN m
    ELSE [m EXCEPT !.stats.lastAlertTime = now,
                   !.alertBanner = "block",
                   !.hideTimers = @ \cup {now + ALERT_HIDE_DELAY}]

\* showAlert(message): what the user gets (banner, notification, sound)
alertShown(m, from) ==
    IF canShowAlert(m) THEN <<[event |-> "alert", from |-> from, at |-> now]>> ELSE <<>>

\* socket.emit('posture-data', { overallScore: smoothed.overallScore,
\* metrics: smoothed.metrics }); an undefined field is not sent
SrvPayload(reading) ==
    [f \in DOMAIN reading \cap {"overallScore", "metrics"} |-> reading[f]]

\* new PostureMonitor()
NewMonitor ==
    [isMonitoring |-> FALSE,
     stats |-> [totalFrames |-> 0, alerts |-> 0, lastAlertTime |-> 0],
     postureHistory |-> <<>>,
     calibrationData |-> <<>>,
     alertBanner |-> "none",
     hideTimers |-> {},          \* setTimeout(() => this.hideAlert(), 10000): due times
     starting |-> 0,             \* startMonitoring() calls awaiting camera and model
     sockets |-> 0,              \* sockets opened by initializeSocket()
     socketConnected |-> FALSE,  \* this.socket.connected
     estimating |-> 0,           \* detectPose() calls awaiting estimatePoses
     scheduled |-> 0,            \* requestAnimationFrame callbacks pending
     animationId |-> FALSE,      \* this.animationId is set
     lastPending |-> FALSE]      \* the callback this.animationId names is pending

\* detectPose(), up to its await: returns at once unless monitoring
detectPose(m) ==
    IF m.isMonitoring THEN [m EXCEPT !.estimating = @ + 1] ELSE m

\* toggleMonitoring() while not monitoring: startMonitoring() up to its first await
StartMonitoring ==
    /\ ~monitor.isMonitoring
    /\ monitor' = [monitor EXCEPT !.starting = @ + 1]
    /\ emitted' = <<>>
    /\ UNCHANGED <<program, now, serverVars>>

\* startMonitoring() after camera, model and socket are set up
StartMonitoringResume ==
    /\ monitor.starting > 0
    /\ monitor' = detectPose([monitor EXCEPT !.starting = @ - 1,
                                             !.sockets = @ + 1,
                                             !.socketConnected = FALSE,
                                             !.isMonitoring = TRUE])
    /\ emitted' = <<>>
    /\ UNCHANGED <<program, now, serverVars>>

\* this.socket.on('connect') and on('disconnect'): socket.connected changes
SocketConnected(value) ==
    /\ monitor.sockets > 0
    /\ monitor.socketConnected # value
    /\ monitor' = [monitor EXCEPT !.socketConnected = value]
    /\ emitted' = <<>>
    /\ UNCHANGED <<program, now, serverVars>>

\* stopMonitoring()
StopMonitoring ==
    /\ monitor.isMonitoring
    /\ monitor' = [monitor EXCEPT
           !.isMonitoring = FALSE,
           !.scheduled = IF monitor.animationId /\ monitor.lastPending THEN @ - 1 ELSE @,
           !.lastPending = IF monitor.animationId THEN FALSE ELSE @,
           !.animationId = FALSE]
    /\ emitted' = <<>>
    /\ UNCHANGED <<program, now, serverVars>>

\* the rest of detectPose(), once estimatePoses has returned `poses`
DetectPose(poses) ==
    /\ monitor.estimating > 0
    /\ LET calibrationData == calibratePosture(monitor.calibrationData, poses)
           raw == analyzePosture(poses[1], calibrationData)
           smoothed == smoothedAnalysis(monitor.postureHistory, raw)
           alerting == smoothed.overallScore < Pts(60)
           seen == [monitor EXCEPT
                       !.calibrationData = calibrationData,
                       !.postureHistory = smoothedHistory(@, raw)]
           after == IF poses = <<>> THEN monitor
                    ELSE IF alerting THEN showAlert(seen) ELSE seen
       IN  /\ monitor' = [after EXCEPT !.stats.totalFrames = @ + 1,
                                      !.estimating = @ - 1,
                                      !.scheduled = @ + 1,
                                      !.animationId = TRUE,
                                      !.lastPending = TRUE]
           /\ emitted' =
                 IF poses = <<>> THEN <<>>
                 ELSE <<[event |-> "updateUI", keypoints |-> poses[1],
                         analysis |-> smoothed]>>
                      \o (IF monitor.sockets > 0 /\ monitor.socketConnected
                          THEN <<[event |-> "posture-data",
                                  data |-> SrvPayload(smoothed)]>>
                          ELSE <<>>)
                      \o (IF alerting THEN alertShown(seen, "detectPose") ELSE <<>>)
    /\ UNCHANGED <<program, now, serverVars>>

\* a requestAnimationFrame callback runs detectPose(); callbacks run in the
\* order they were requested
AnimationFrame ==
    /\ monitor.scheduled > 0
    /\ monitor' = detectPose([monitor EXCEPT
           !.scheduled = @ - 1,
           !.lastPending = @ /\ monitor.scheduled > 1])
    /\ emitted' = <<>>
    /\ UNCHANGED <<program, now, serverVars>>

\* this.socket.on('posture-alert'): showAlert(alert.message); this.stats.alerts++
OnPostureAlert ==
    /\ monitor.sockets > 0
    /\ monitor' = [showAlert(monitor) EXCEPT !.stats.alerts = @ + 1]
    /\ emitted' = alertShown(monitor, "posture-alert")
    /\ UNCHANGED <<program, now, serverVars>>

\* hideAlert(), from the dismiss button or from a timer of showAlert that is due
hideAlert(timers) ==
    /\ monitor' = [monitor EXCEPT !.alertBanner = "none", !.hideTimers = @ \ timers]
    /\ emitted' = <<>>
    /\ UNCHANGED <<program, now, serverVars>>

HideAlertTimer == \E t \in monitor.hideTimers : t <= now /\ hideAlert({t})

DismissAlert == monitor.alertBanner = "block" /\ hideAlert({})

\* resetStatistics()
ResetStatistics ==
    /\ monitor' = [monitor EXCEPT
           !.stats = [totalFrames |-> 0, alerts |-> 0, lastAlertTime |-> 0],
           !.postureHistory = <<>>,
           !.calibrationData = <<>>]
    /\ emitted' = <<>>
    /\ UNCHANGED <<program, now, serverVars>>

-----------------------------------------------------------------------------
(* The clock and the clients *)

\* The clients are steady: a client repeats the reading it sent last, either
\* back to back (pace 0) or one every `pace` milliseconds.  Every departure
\* from that (another reading, another pace, a pause, a reconnection, a click)
\* is a change, and a run has at most MaxChanges of them.

EnvInit(pace) == [frames |-> 0, changes |-> 0, opened |-> {},
                  pace |-> pace, due |-> "frame", last |-> <<>>, late |-> 0,
                  sweepDue |-> StartTime + SWEEP_PERIOD]

\* what the clock moving on by d costs: nothing when the client's pace is d
\* and its frame of this instant has been sent
TickCost(d) == IF env.pace = d /\ env.due = "tick" THEN 0 ELSE 1

\* what client id sending d next costs
SendCost(id, d) ==
    (IF env.last \in {<<>>, <<id, d>>} THEN 0 ELSE 1)
    + (IF env.pace # 0 /\ env.due = "tick" THEN 1 ELSE 0)

Affordable(cost) == env.changes + cost <= MaxChanges

Changes(cost) == Affordable(cost) /\ env' = [env EXCEPT !.changes = @ + cost]

\* Date.now() moves on by d milliseconds between two events
Tick(d) ==
    /\ Affordable(TickCost(d))
    /\ now' = now + d
    /\ env' = [env EXCEPT !.changes = @ + TickCost(d), !.pace = d, !.due = "frame"]
    /\ emitted' = <<>>
    /\ UNCHANGED <<program, monitor, connected, sessions, lastProcessTime, sent, reported>>

MaySend(id, d, maxFrames) == env.frames < maxFrames /\ Affordable(SendCost(id, d))

Sends(id, d) ==
    [env EXCEPT !.frames = @ + 1,
                !.changes = @ + SendCost(id, d),
                !.pace = IF env.due = "tick" THEN 0 ELSE @,
                !.due = IF env.pace # 0 /\ env.due = "frame" THEN "tick" ELSE @,
                !.last = <<id, d>>]

\* client id opens; opening again later is a change
ConnectCost(id) == IF id \in env.opened THEN 1 ELSE 0

MayConnect(id) == id \notin connected /\ Affordable(ConnectCost(id))

Connects(id) == [env EXCEPT !.opened = @ \cup {id}, !.changes = @ + ConnectCost(id)]

\* the client's record of what it sent on socket id
Reports(id, d) == [reported EXCEPT ![id] = Append(@, d)]

\* nothing connected, nothing sent, the page just loaded
Fresh(name, paces) ==
    /\ program = name
    /\ now = StartTime
    /\ connected = {}
    /\ sessions = EmptyMap
    /\ lastProcessTime = [id \in SocketIds |-> 0]
    /\ sent = [id \in SocketIds |-> <<>>]
    /\ reported = [id \in SocketIds |-> <<>>]
    /\ emitted = <<>>
    /\ monitor = NewMonitor
    /\ env \in {EnvInit(pace) : pace \in paces}

\* socket id has been streaming reading d every 100 ms, the last time 100 ms
\* ago, and its session is `session`
Streaming(name, id, session, d, count) ==
    /\ program = name
    /\ now = StartTime
    /\ connected = {id}
    /\ sessions = MapSet(EmptyMap, id, session)
    /\ lastProcessTime = [i \in SocketIds |-> IF i = id THEN StartTime - 100 ELSE 0]
    /\ sent = [i \in SocketIds |-> <<>>]
    /\ reported = [i \in SocketIds |-> IF i = id THEN [k \in 1..count |-> d] ELSE <<>>]
    /\ emitted = <<>>
    /\ monitor = NewMonitor
    /\ env = [EnvInit(100) EXCEPT !.opened = {id}, !.last = <<id, d>>]

-----------------------------------------------------------------------------
(* Frames: the keypoints of one instant, by name *)

KP(x, y, score) == [x |-> x, y |-> y, score |-> score]

\* a seated person facing the camera: the head at headX, the shoulders
\* shoulderHalf to each side of the middle, the hips shifted by hipDx, every
\* keypoint with the same score
Pose(headX, shoulderHalf, hipDx, score) ==
    [name \in {"nose", "left_ear", "right_ear", "left_shoulder", "right_shoulder",
               "left_hip", "right_hip"} |->
        CASE name = "nose" -> KP(headX, 4, score)
          [] name = "left_ear" -> KP(headX + 1, 4, score)
          [] name = "right_ear" -> KP(headX - 1, 4, score)
          [] name = "left_shoulder" -> KP(10 + shoulderHalf, 8, score)
          [] name = "right_shoulder" -> KP(10 - shoulderHalf, 8, score)
          [] name = "left_hip" -> KP(12 + hipDx, 16, score)
          [] name = "right_hip" -> KP(8 + hipDx, 16, score)]

\* a frame in which app.js measures no deviation at all: the shoulders level
\* with the left one at the smaller x, the nose straight below their midpoint,
\* the hips level with the shoulders
Level(score) ==
    [name \in {"nose", "left_shoulder", "right_shoulder", "left_hip", "right_hip"} |->
        CASE name = "nose" -> KP(10, 12, score)
          [] name = "left_shoulder" -> KP(8, 8, score)
          [] name = "right_shoulder" -> KP(12, 8, score)
          [] name = "left_hip" -> KP(16, 8, score)
          [] name = "right_hip" -> KP(20, 8, score)]

\* a frame in which the pose estimator did not report the keypoints `names`
Without(frame, names) == [name \in DOMAIN frame \ names |-> frame[name]]

\* a frame in which every keypoint is reported at the same point
Collapsed(frame) == [name \in DOMAIN frame |-> KP(10, 10, frame[name].score)]

\* a frame in which the hips are reported where the shoulders are
Folded(frame) ==
    [frame EXCEPT !["left_hip"] = frame["left_shoulder"],
                  !["right_hip"] = frame["right_shoulder"]]

Required == {"nose", "left_shoulder", "right_shoulder"}

Hips == {"left_hip", "right_hip"}

Upright == Pose(10, 2, 0, 9)

Slouch == Pose(12, 1, 0, 9)

\* frames of every kind: good and poor ones, every keypoint score from the
\* floors up, keypoints missing, and degenerate geometry (shoulders of no
\* width, hips on the shoulders, everything on one point)
Frames ==
    {Upright, Slouch, Pose(10, 2, 3, 9), Pose(14, 2, 0, 10), Level(9), Level(7)}
    \cup {Pose(12, 1, 0, score) : score \in {2, 3, 5, 6}}
    \cup {Pose(12, 1, 3, 3), Pose(12, 1, 3, 9)}
    \cup {Pose(12, 0, 0, 9), Pose(10, 0, 0, 9), Folded(Upright), Collapsed(Slouch)}
    \cup {Without(f, Hips) : f \in {Upright, Slouch, Level(9)}}
    \cup {Without(Slouch, {name}) : name \in Required}

-----------------------------------------------------------------------------
(* Runs of backend/server.js.  Its client is the browser monitor, which    *)
(* reports each Assessment it makes (frontend/app.js:370-375).             *)

\* Assessments the monitor makes: a confident poor one, one at the poor
\* threshold, and the one for a frame without the required keypoints
\* (app.js:183); the last reading is of a client that sends no overallScore
SrvReadings ==
    {[overallScore |-> Pts(40), confidence |-> 27, valid |-> TRUE],
     [overallScore |-> Pts(60), confidence |-> 27, valid |-> TRUE],
     [overallScore |-> 0, confidence |-> 0, valid |-> FALSE],
     [confidence |-> 27, valid |-> TRUE]}

SrvTicks == {100, 120000}

\* the history after n readings of score 60, one every 100 ms, the last of
\* them 100 ms before StartTime: n pushes and, n being below the capacity, no
\* shift
SrvStreamed(n) ==
    [k \in 1..n |-> [ts |-> StartTime - 100 * (n + 1 - k), score |-> Pts(60)]]

SrvInit ==
    \/ Fresh("server.js", {0} \cup SrvTicks)
    \/ Streaming("server.js", "s1",
                 [id |-> "s1", connectedAt |-> StartTime - 100 * SrvHistoryMax,
                  history |-> SrvStreamed(SrvHistoryMax - 1)],
                 [overallScore |-> Pts(60), confidence |-> 27, valid |-> TRUE],
                 SrvHistoryMax - 1)

SrvRun(maxFrames) ==
    \/ \E id \in StreamIds :
          MayConnect(id) /\ SrvConnection(id) /\ env' = Connects(id)
    \/ \E id \in connected, r \in SrvReadings :
          /\ MaySend(id, r, maxFrames)
          /\ SrvPostureData(id, SrvPayload(r))
          /\ reported' = Reports(id, r)
          /\ env' = Sends(id, r)
    \/ \E id \in connected : SrvDisconnect(id) /\ Changes(1)
    \/ \E d \in SrvTicks : Tick(d)

SrvNext == SrvRun(MaxFrames)

SpecSrv == SrvInit /\ [][SrvNext]_vars

-----------------------------------------------------------------------------
(* Runs of the second revision of unnamed/part_000 *)

R2Name == "part_000 (second revision)"

\* posture-data payloads: { keypoints }, and one without a keypoints array
R2Payloads ==
    {[keypoints |-> f] : f \in {Upright, Slouch, Pose(12, 1, 0, 4),
                                Without(Slouch, {"nose"})}}
    \cup {[image |-> "none"]}

\* one client streaming frames, at 50 Hz, at 10 Hz or back to back
R2Ticks == {20, 100}

\* the session after n Upright frames, one every 100 ms, the last of them
\* 100 ms before StartTime, n being below the capacity: every one of them is
\* analysed alike, the blend of a score with itself being the score
R2Streamed(n) ==
    LET first == R2analyzePosture(Upright, <<>>)
        analysis == R2analyzePosture(Upright, <<first>>)
    IN  [id |-> "s1", connectedAt |-> StartTime - 100 * (n + 1),
         lastActivity |-> StartTime - 100,
         postureHistory |->
             [k \in 1..n |-> [timestamp |-> StartTime - 100 * (n + 1 - k),
                              analysis |-> analysis]],
         lastAnalysis |-> <<analysis>>,
         frameCount |-> n]

R2Init ==
    \/ Fresh(R2Name, {0} \cup R2Ticks)
    \/ Streaming(R2Name, "s1", R2Streamed(POSTURE_HISTORY_MAX - 1),
                 [keypoints |-> Upright], POSTURE_HISTORY_MAX - 1)

R2Client(ids, payloads, maxFrames) ==
    \/ \E id \in ids :
          MayConnect(id) /\ R2Connection(id) /\ env' = Connects(id)
    \/ \E id \in connected, d \in payloads :
          /\ MaySend(id, d, maxFrames)
          /\ R2PostureData(id, d)
          /\ reported' = Reports(id, d)
          /\ env' = Sends(id, d)

R2Run(maxFrames) ==
    \/ R2Client(StreamIds, R2Payloads, maxFrames)
    \/ \E id \in connected : R2Disconnect(id) /\ Changes(1)
    \/ \E d \in R2Ticks : Tick(d)

R2Next == R2Run(MaxFrames)

SpecR2 == R2Init /\ [][R2Next]_vars

\* one client streaming the same frame for more than a second
R2RateNext ==
    \/ R2Client(StreamIds, {[keypoints |-> Slouch]}, MaxRateFrames)
    \/ \E d \in R2Ticks : Tick(d)

SpecR2Rate == Fresh(R2Name, {0} \cup R2Ticks) /\ [][R2RateNext]_vars

\* two clients, few frames, pauses of 5, 30 and 35 minutes, and the idle sweep
R2SweepTicks == {300000, 1800000, 2100000}

R2SweepNext ==
    \/ R2Client(SocketIds, {[keypoints |-> Upright]}, MaxSweepFrames)
    \/ \E id \in connected : R2Disconnect(id) /\ Changes(1)
    \/ \E d \in R2SweepTicks : Tick(d)
    \/ R2cleanupSessions /\ UNCHANGED env

SpecR2Sweep == Fresh(R2Name, {0} \cup R2SweepTicks) /\ [][R2SweepNext]_vars

-----------------------------------------------------------------------------
(* Either server with one client, freshly started or well into a stream *)

ServersInit == SrvInit \/ R2Init

ServersNext ==
    \/ program = "server.js" /\ SrvNext
    \/ program = R2Name /\ R2Next

SpecServers == ServersInit /\ [][ServersNext]_vars

-----------------------------------------------------------------------------
(* Either server with two clients: connections, frames of the two in any   *)
(* order, pauses, disconnections, frames that reach a socket's handler     *)
(* after the socket has closed, and (second revision) the idle sweep       *)

LifeReadings == {[overallScore |-> Pts(40), confidence |-> 27, valid |-> TRUE]}

LifePayloads == {[keypoints |-> Slouch]}

\* 50 Hz, 10 Hz, and a pause of 35 minutes
LifeTicks == {20, 100, 2100000}

\* what the clients and the clock do besides sending frames: at most
\* MaxLifeEvents such events in a run
LifeEvent == env.changes < MaxLifeEvents /\ env' = [env EXCEPT !.changes = @ + 1]

\* a client opens socket id; opening one again is an event
LifeConnect(id) ==
    /\ id \notin connected
    /\ id \in env.opened => env.changes < MaxLifeEvents
    /\ env' = [env EXCEPT !.opened = @ \cup {id},
                          !.changes = IF id \in env.opened THEN @ + 1 ELSE @]

\* frame d is delivered to the posture-data handler of socket id, which is
\* open, or has closed since the frame was sent
LifeFrame(id, d) ==
    /\ env.frames < MaxLifeFrames
    /\ env' = [env EXCEPT !.frames = @ + 1, !.last = <<id, d>>,
                          !.late = IF id \in connected THEN @ ELSE @ + 1]
    /\ reported' = Reports(id, d)

LifePause(d) ==
    /\ LifeEvent
    /\ now' = now + d
    /\ emitted' = <<>>
    /\ UNCHANGED <<program, monitor, connected, sessions, lastProcessTime, sent, reported>>

SrvLife ==
    \/ \E id \in SocketIds : LifeConnect(id) /\ SrvConnection(id)
    \/ \E id \in env.opened, r \in LifeReadings :
          LifeFrame(id, r) /\ SrvPostureData(id, SrvPayload(r))
    \/ \E id \in connected : LifeEvent /\ SrvDisconnect(id)
    \/ \E d \in LifeTicks : LifePause(d)

R2Life ==
    \/ \E id \in SocketIds : LifeConnect(id) /\ R2Connection(id)
    \/ \E id \in env.opened, d \in LifePayloads :
          LifeFrame(id, d) /\ R2PostureData(id, d)
    \/ \E id \in connected : LifeEvent /\ R2Disconnect(id)
    \/ \E d \in LifeTicks : LifePause(d)
    \/ R2cleanupSessions /\ UNCHANGED env

LifeInit == Fresh("server.js", {0}) \/ Fresh(R2Name, {0})

LifeNext ==
    \/ program = "server.js" /\ SrvLife
    \/ program = R2Name /\ R2Life

SpecLife == LifeInit /\ [][LifeNext]_vars

-----------------------------------------------------------------------------
(* Either server over more than half an hour.  The second revision of      *)
(* part_000 set its sweep timer when it started: setInterval runs           *)
(* cleanupSessions every SWEEP_PERIOD, and the clock does not pass a time   *)
(* the timer is due at before the timer has fired.  server.js sets no timer.*)

IdleTicks == {MIN_PROCESS_INTERVAL, SWEEP_PERIOD}

\* the clock moves on by d, at most MaxIdleTicks times, up to the time the
\* sweep timer is due at
IdleTick(d) ==
    /\ env.changes < MaxIdleTicks
    /\ program = R2Name => now + d <= env.sweepDue
    /\ now' = now + d
    /\ env' = [env EXCEPT !.changes = @ + 1]
    /\ emitted' = <<>>
    /\ UNCHANGED <<program, monitor, connected, sessions, lastProcessTime, sent, reported>>

\* setInterval(cleanupSessions, 5 * 60 * 1000): the timer fires
IdleSweep ==
    /\ program = R2Name
    /\ now = env.sweepDue
    /\ R2cleanupSessions
    /\ env' = [env EXCEPT !.sweepDue = @ + SWEEP_PERIOD]

IdleConnect(id) ==
    /\ id \notin env.opened
    /\ env' = [env EXCEPT !.opened = @ \cup {id}]
    /\ IF program = "server.js" THEN SrvConnection(id) ELSE R2Connection(id)

IdleFrame(id) ==
    /\ env.frames < MaxIdleFrames
    /\ env' = [env EXCEPT !.frames = @ + 1]
    /\ IF program = "server.js"
       THEN LET r == [overallScore |-> Pts(40), confidence |-> 27, valid |-> TRUE]
            IN  SrvPostureData(id, SrvPayload(r)) /\ reported' = Reports(id, r)
       ELSE LET d == [keypoints |-> Slouch]
            IN  R2PostureData(id, d) /\ reported' = Reports(id, d)

IdleDisconnect(id) ==
    /\ UNCHANGED env
    /\ IF program = "server.js" THEN SrvDisconnect(id) ELSE R2Disconnect(id)

IdleNext ==
    \/ \E id \in StreamIds : IdleConnect(id)
    \/ \E id \in env.opened : IdleFrame(id)
    \/ \E id \in connected : IdleDisconnect(id)
    \/ \E d \in IdleTicks : IdleTick(d)
    \/ IdleSweep

SpecIdle == (Fresh("server.js", {0}) \/ Fresh(R2Name, {0})) /\ [][IdleNext]_vars

-----------------------------------------------------------------------------
(* Runs of frontend/app.js: one page, its camera and its user *)

\* what estimatePoses returns: no pose, or one pose
FrontPoses ==
    {<<>>} \cup {<<f>> : f \in {Level(9), Slouch, Without(Level(9), Hips),
                                Without(Slouch, {"nose"})}}

FrontTicks == {100, 120000}

FrontInit == Fresh("app.js", {0} \cup FrontTicks)

\* a timer of showAlert is due
TimerDue == \E t \in monitor.hideTimers : t <= now

\* The page starts monitoring (the first click on Start is no change) and
\* runs its detectPose loop on what the camera shows.  The browser runs a due
\* timer before any other event and a requested animation frame before the
\* clock moves on; the socket connects before the first frame, and later
\* only as a change.
FrontLoop(poses, maxFrames) ==
    \/ HideAlertTimer /\ UNCHANGED env
    \/ /\ ~TimerDue
       /\ \/ StartMonitoring /\ Affordable(ConnectCost("page"))
                             /\ env' = Connects("page")
          \/ StartMonitoringResume /\ UNCHANGED env
          \/ SocketConnected(TRUE) /\ Changes(IF env.frames = 0 THEN 0 ELSE 1)
          \/ \E p \in poses :
                /\ MaySend("camera", p, maxFrames)
                /\ DetectPose(p)
                /\ env' = Sends("camera", p)
          \/ AnimationFrame /\ UNCHANGED env
          \/ \E d \in FrontTicks : monitor.scheduled = 0 /\ Tick(d)

\* what the user and the network do besides
FrontNext ==
    \/ FrontLoop(FrontPoses, MaxFrontFrames)
    \/ /\ ~TimerDue
       /\ \/ SocketConnected(FALSE) /\ Changes(1)
          \/ StopMonitoring /\ Changes(1)
          \/ OnPostureAlert /\ Changes(1)
          \/ DismissAlert /\ Changes(1)
          \/ ResetStatistics /\ Changes(1)

SpecFront == FrontInit /\ [][FrontNext]_vars

-----------------------------------------------------------------------------
(* All three programs, freshly started or well into a stream: short runs *)

\* the page after n Level frames, one every 100 ms, the last of them 100 ms
\* before StartTime, n being below the capacity of its history: the first
\* frame calibrated it, every frame was assessed alike and smoothing left
\* the common score as it was
FrontStreamed(n) ==
    LET calibrationData == calibration(Level(9))
        analysis == analyzePosture(Level(9), calibrationData)
    IN  [NewMonitor EXCEPT
            !.isMonitoring = TRUE,
            !.stats.totalFrames = n,
            !.postureHistory = [k \in 1..n |-> analysis],
            !.calibrationData = calibrationData,
            !.sockets = 1,
            !.socketConnected = TRUE,
            !.estimating = 1,
            !.animationId = TRUE]

FrontStreaming ==
    /\ program = "app.js"
    /\ now = StartTime
    /\ connected = {}
    /\ sessions = EmptyMap
    /\ lastProcessTime = [id \in SocketIds |-> 0]
    /\ sent = [id \in SocketIds |-> <<>>]
    /\ reported = [id \in SocketIds |-> <<>>]
    /\ emitted = <<>>
    /\ monitor = FrontStreamed(MonitorHistoryMax - 1)
    /\ env = [EnvInit(100) EXCEPT !.opened = {"page"}, !.last = <<"camera", <<Level(9)>>>>]

StreamInit == SrvInit \/ R2Init \/ FrontInit \/ FrontStreaming

StreamNext ==
    \/ program = "server.js" /\ SrvRun(MaxStreamFrames)
    \/ program = R2Name /\ R2Run(MaxStreamFrames)
    \/ program = "app.js" /\ FrontLoop(FrontPoses, MaxStreamFrames)

SpecStream == StreamInit /\ [][StreamNext]_vars

-----------------------------------------------------------------------------
(* The two programs that smooth their scores, on long steady streams *)

SteadyInit == R2Init \/ FrontInit \/ FrontStreaming

\* two frames whose scores differ
SteadyFrames == {Level(9), Slouch}

SteadyNext ==
    \/ /\ program = R2Name
       /\ \/ R2Client(StreamIds, {[keypoints |-> f] : f \in SteadyFrames}, MaxFrames)
          \/ Tick(MIN_PROCESS_INTERVAL)
    \/ /\ program = "app.js"
       /\ FrontLoop({<<f>> : f \in SteadyFrames}, MaxFrames)

SpecSteady == SteadyInit /\ [][SteadyNext]_vars

-----------------------------------------------------------------------------
(* The analyzers on frames of every kind: short runs *)

PosesNext ==
    \/ /\ program = R2Name
       /\ \/ R2Client(StreamIds, {[keypoints |-> f] : f \in Frames}, MaxPoseFrames)
          \/ Tick(100)
    \/ /\ program = "app.js"
       /\ FrontLoop({<<f>> : f \in Frames}, MaxPoseFrames)

SpecPoses ==
    /\ Fresh(R2Name, {100}) \/ Fresh("app.js", {0})
    /\ [][PosesNext]_vars

-----------------------------------------------------------------------------
(* Properties *)

\* C1: on every socket, two posture-alert events that follow one another are
\* at least the cooldown (2 minutes) apart
C1_AlertsCooldownApart ==
    \A id \in SocketIds : \A i \in 1..(Len(sent[id]) - 1) :
        sent[id][i + 1] - sent[id][i] >= ALERT_COOLDOWN

Poor40 == [overallScore |-> Pts(40), confidence |-> 27, valid |-> TRUE]

\* C2: a session that has received ten Assessments, each of score 40 and
\* confidence 0.9, has been sent exactly one posture-alert
C2_TenPoorOneAlert ==
    \A id \in SocketIds :
        reported[id] = [k \in 1..10 |-> Poor40] => Len(sent[id]) = 1

\* C3: the page raises its alert banner on a frame only when at least 8 of
\* the 10 most recent readings it has recorded are poor (score below 60)
C3_AlertNeedsSustainedPoor ==
    \A i \in DOMAIN emitted :
        (emitted[i].event = "alert" /\ emitted[i].from = "detectPose") =>
            LET Poor(a) == a.overallScore < Pts(SrvPoorScore)
            IN  CountIf(SliceLast(monitor.postureHistory, SrvRecent), Poor)
                    >= SrvAlertCount

\* C4: no posture-alert is emitted when at least K - alertThreshold + 1 of the
\* last K readings the session was sent have a confidence of 0.5 or less
C4_NoAlertOnLowConfidence ==
    \A i \in DOMAIN emitted :
        emitted[i].event = "posture-alert" =>
            LET Unsure(r) == r.confidence <= 15
            IN  CountIf(SliceLast(reported[emitted[i].to], SrvRecent), Unsure)
                    < SrvRecent - SrvAlertCount + 1

\* the history of a session: `history` in server.js, `postureHistory` in part_000
History(session) ==
    IF program = "server.js" THEN session.history ELSE session.postureHistory

Capacity == IF program = "server.js" THEN SrvHistoryMax ELSE POSTURE_HISTORY_MAX

Stamp(entry) == IF program = "server.js" THEN entry.ts ELSE entry.timestamp

Chronological(history) ==
    \A i \in 1..(Len(history) - 1) : Stamp(history[i]) <= Stamp(history[i + 1])

\* h2 is h1, or h1 with one entry put at its end after the oldest entry was
\* dropped if h1 was at its capacity n
FifoStep(h1, h2, n) ==
    \/ h2 = h1
    \/ /\ h2 # <<>>
       /\ h2 = Append(IF Len(h1) >= n THEN Tail(h1) ELSE h1, h2[Len(h2)])

\* C5: a history (a server session's, the page's) never holds more than its
\* capacity, is in chronological order, and every step leaves it as it was
\* or appends one entry, dropping the oldest one when it was full
C5_HistoryBoundedFifo ==
    /\ [](/\ \A id \in DOMAIN sessions :
                /\ Len(History(sessions[id])) <= Capacity
                /\ Chronological(History(sessions[id]))
          /\ Len(monitor.postureHistory) <= MonitorHistoryMax)
    /\ [][/\ \A id \in DOMAIN sessions \cap DOMAIN sessions' :
                FifoStep(History(sessions[id]), History(sessions'[id]), Capacity)
          /\ FifoStep(monitor.postureHistory, monitor'.postureHistory,
                      MonitorHistoryMax)]_vars

\* C5, reached: a full history of server.js from which the oldest entry of
\* the stream has been evicted
C5_Evicted ==
    /\ program = "server.js"
    /\ "s1" \in DOMAIN sessions
    /\ Len(sessions["s1"].history) = SrvHistoryMax
    /\ sessions["s1"].history[1].ts > StartTime - 100 * (SrvHistoryMax - 1)
    /\ sessions["s1"].history[SrvHistoryMax].ts >= StartTime

\* a required keypoint is missing from the frame or at or below the floor
MissingRequired(frame, floor) ==
    \E name \in Required : name \notin DOMAIN frame \/ frame[name].score <= floor

\* both hips are missing and the required keypoints are there, above the floor
OnlyHipsMissing(frame, floor) ==
    /\ ~MissingRequired(frame, floor)
    /\ \A name \in Hips : name \notin DOMAIN frame \/ frame[name].score <= floor

\* the frame a posture-analysis event is the analysis of
Analysed(e) == reported[e.to][Len(reported[e.to])].keypoints

\* C6: the Assessment of a frame without one of nose, left_shoulder and
\* right_shoulder above the confidence floor (0.2 in part_000, 0.5 in app.js)
\* has valid = false and overallScore = 0
C6_MissingRequiredInvalid ==
    \A i \in DOMAIN emitted :
        LET e == emitted[i]
            Invalid(a) == /\ "valid" \in DOMAIN a
                          /\ a.valid = FALSE
                          /\ a.overallScore = 0
        IN  /\ (e.event = "posture-analysis" /\ MissingRequired(Analysed(e), 2))
                   => Invalid(e.analysis)
            /\ (e.event = "updateUI" /\ MissingRequired(e.keypoints, 5))
                   => Invalid(e.analysis)

\* C7: the Assessment of a frame without hips but with nose and shoulders
\* above the floor is valid in app.js, and has torsoLean and roundedShoulders
\* false or absent in app.js and in part_000
C7_HipsMissingStillValid ==
    \A i \in DOMAIN emitted :
        LET e == emitted[i]
            Off(flags, name) == name \notin DOMAIN flags \/ flags[name] = FALSE
        IN  /\ (e.event = "posture-analysis" /\ OnlyHipsMissing(Analysed(e), 2))
                   => /\ Off(e.analysis, "torsoLean")
                      /\ Off(e.analysis, "roundedShoulders")
                      /\ "forwardHead" \in DOMAIN e.analysis
            /\ (e.event = "updateUI" /\ OnlyHipsMissing(e.keypoints, 5))
                   => /\ e.analysis.valid
                      /\ "metrics" \in DOMAIN e.analysis
                      /\ Off(e.analysis.metrics, "torsoLean")
                      /\ Off(e.analysis.metrics, "roundedShoulders")
                      /\ "forwardHead" \in DOMAIN e.analysis.metrics

InRange(score) == score \in 0..Pts(100)

\* C8: every overallScore is a number from 0 to 100: of each analysis made
\* and kept by part_000, of each Assessment made and kept by app.js, and the
\* score server.js takes from what app.js sends
C8_ScoreInRange ==
    /\ \A i \in DOMAIN emitted :
          LET e == emitted[i]
          IN  /\ e.event \in {"posture-analysis", "updateUI"}
                     => InRange(e.analysis.overallScore)
              /\ e.event = "posture-data" => InRange(SrvScore(e.data))
    /\ \A id \in DOMAIN sessions :
          /\ \A i \in DOMAIN sessions[id].postureHistory :
                InRange(sessions[id].postureHistory[i].analysis.overallScore)
          /\ \A i \in DOMAIN sessions[id].lastAnalysis :
                InRange(sessions[id].lastAnalysis[i].overallScore)
    /\ \A i \in DOMAIN monitor.postureHistory :
          InRange(monitor.postureHistory[i].overallScore)

\* C8, reached: part_000 has analysed a frame whose shoulders have no width
\* and blended its score with that of an earlier analysis
C8_DegenerateBlended ==
    /\ program = R2Name
    /\ \E i \in DOMAIN emitted :
          /\ emitted[i].event = "posture-analysis"
          /\ Analysed(emitted[i]) = Pose(12, 0, 0, 9)
          /\ Len(sessions[emitted[i].to].postureHistory) >= 2
          /\ emitted[i].analysis.overallScore
                # R2analyzePosture(Pose(12, 0, 0, 9), <<>>).overallScore

\* C9: in every history of part_000 two entries that follow one another are
\* at least 100 ms apart, and no entry has more than 10 entries (itself
\* included) within the second that ends with it
C9_RateLimited ==
    \A id \in DOMAIN sessions :
        LET h == sessions[id].postureHistory
        IN  /\ \A i \in 1..(Len(h) - 1) :
                  h[i + 1].timestamp - h[i].timestamp >= MIN_PROCESS_INTERVAL
            /\ \A i \in DOMAIN h :
                  Cardinality({j \in 1..i :
                                  h[j].timestamp > h[i].timestamp - 1000}) <= 10

\* C9, reached: a client has sent frames at 50 Hz for more than a second
C9_FiftyHertzForASecond ==
    /\ env.pace = 20
    /\ env.changes = 0
    /\ Len(reported["s1"]) > 50
    /\ "s1" \in DOMAIN sessions
    /\ Len(sessions["s1"].postureHistory) > 10

\* C10: a sweep removes every session idle for longer than MAX_SESSION_AGE
\* and leaves every other session in the table as it was, the socket
\* connected or not
C10_SweepPostcondition ==
    [][R2cleanupSessions =>
          /\ DOMAIN sessions' \subseteq DOMAIN sessions
          /\ \A id \in DOMAIN sessions :
                IF now - sessions[id].lastActivity > MAX_SESSION_AGE
                THEN id \notin DOMAIN sessions'
                ELSE id \in DOMAIN sessions' /\ sessions'[id] = sessions[id]]_vars

\* C10, reached: with one session idle for longer than MAX_SESSION_AGE and
\* the other for exactly that long, both sockets connected, the sweep has
\* removed the first and left the second
C10_SweptWhileConnected ==
    /\ connected = {"s1", "s2"}
    /\ DOMAIN sessions = {"s2"}
    /\ now - sessions["s2"].lastActivity = MAX_SESSION_AGE

\* the step delivers a frame to the posture-data handler of socket id
FrameFor(id) == env'.frames = env.frames + 1 /\ env'.last[1] = id

\* the step is the disconnect handler of socket id
DisconnectOf(id) == id \in connected /\ id \notin connected'

\* C11: a socket that has closed has no session: its disconnect handler
\* removed it at once, and a frame that reaches its posture-data handler
\* afterwards creates no session and is answered by no posture-analysis and
\* no posture-alert
C11_DisconnectRemovesSession ==
    \A id \in SocketIds \ connected :
        /\ id \notin DOMAIN sessions
        /\ \A k \in DOMAIN emitted : emitted[k].to # id

\* C11, reached: a socket was opened, sent a frame, closed, and then its
\* handler was delivered one more frame
C11_FrameAfterDisconnect ==
    /\ connected = {}
    /\ env.opened = {"s1"}
    /\ env.changes = 1
    /\ env.frames = 2
    /\ env.late = 1
    /\ env.last[1] = "s1"

\* C12: while monitoring is stopped the page holds no open socket, so that
\* the server has dropped the observer's session, and no frame is analysed
\* or sent to the backend, a frame whose pose estimation was under way when
\* monitoring stopped included
C12_StoppedMeansNoFrames ==
    ~monitor.isMonitoring =>
        /\ ~monitor.socketConnected
        /\ \A k \in DOMAIN emitted :
              emitted[k].event \notin {"updateUI", "posture-data"}

\* C13: a frame delivered to the handler of a socket that has no session in
\* the table (the socket closed, or the sweep removed its session) leaves
\* the table as it is, creates no session, and is answered by no
\* posture-analysis and no posture-alert
C13_UnknownSessionNoOp ==
    [][\A id \in SocketIds :
          (FrameFor(id) /\ id \notin DOMAIN sessions) =>
              /\ sessions' = sessions
              /\ emitted' = <<>>
              /\ sent' = sent]_vars

\* C13, reached: the sweep has removed the session of a socket that is
\* still connected, and the socket has sent a frame since, which passed the
\* rate limiter
C13_FrameAfterSweep ==
    /\ program = R2Name
    /\ \E id \in connected :
          /\ id \notin DOMAIN sessions
          /\ lastProcessTime[id] = now
          /\ env.last # <<>>
          /\ env.last[1] = id

\* C15: once the monitor has a calibration baseline, no step changes its
\* neckAngle, shoulderSlope or torsoAngle or puts another baseline in its
\* place
C15_BaselineFrozen ==
    [][monitor.calibrationData # <<>> =>
          monitor'.calibrationData = monitor.calibrationData]_vars

\* C16: a frame without a keypoints array that reaches the analyzer (its
\* socket has a session and the rate limiter lets it pass) is answered like
\* a frame without the required keypoints, by an Assessment that is not
\* valid and has score 0
C16_MalformedFrameInvalid ==
    [][\A id \in SocketIds :
          (/\ FrameFor(id)
           /\ id \in DOMAIN sessions
           /\ now - lastProcessTime[id] >= MIN_PROCESS_INTERVAL
           /\ "keypoints" \notin DOMAIN env'.last[2]) =>
              \E k \in DOMAIN emitted' :
                  /\ emitted'[k].event = "posture-analysis"
                  /\ "valid" \in DOMAIN emitted'[k].analysis
                  /\ ~emitted'[k].analysis.valid
                  /\ emitted'[k].analysis.overallScore = 0]_vars

\* the scores of the Assessments in a history of the monitor
Scores(postureHistory) == {postureHistory[k].overallScore : k \in DOMAIN postureHistory}

\* second revision: the step analyses a frame of socket id whose own score
\* is the score of the session's previous analysis
R2SteadyFrame(id) ==
    /\ FrameFor(id)
    /\ "keypoints" \in DOMAIN env'.last[2]
    /\ sessions'[id].frameCount = sessions[id].frameCount + 1
    /\ sessions[id].lastAnalysis # <<>>
    /\ R2analyzePosture(env'.last[2].keypoints, <<>>).overallScore
          = sessions[id].lastAnalysis[1].overallScore

\* app.js: the Assessment analyzePosture makes of the frame of the step
FrontRaw == analyzePosture(env'.last[2][1], monitor'.calibrationData)

\* app.js: the step assesses a frame whose own score is the score of every
\* Assessment in the window
FrontSteadyFrame ==
    /\ FrameFor("camera")
    /\ env'.last[2] # <<>>
    /\ FrontRaw.valid
    /\ Scores(monitor.postureHistory) \subseteq {FrontRaw.overallScore}

\* C17: when the Assessment of the current frame has the score c of every
\* Assessment smoothing blends it with (second revision: the previous
\* analysis; app.js: the window postureHistory), the smoothed Assessment has
\* score c
C17_SmoothingFixedPoint ==
    [][/\ \A id \in DOMAIN sessions :
             R2SteadyFrame(id) =>
                 sessions'[id].lastAnalysis[1].overallScore
                     = sessions[id].lastAnalysis[1].overallScore
       /\ FrontSteadyFrame =>
             /\ monitor'.postureHistory # <<>>
             /\ monitor'.postureHistory[Len(monitor'.postureHistory)].overallScore
                   = FrontRaw.overallScore
             /\ emitted'[1].analysis.overallScore = FrontRaw.overallScore]_vars

\* C17, reached: twenty frames of one score and more, the window full of it
C17_TwentySteadyFrames ==
    /\ program = "app.js"
    /\ monitor.stats.totalFrames >= 20
    /\ Len(monitor.postureHistory) = MonitorHistoryMax
    /\ Scores(monitor.postureHistory) = {Pts(90)}

\* C18: a frame that arrives less than MIN_PROCESS_INTERVAL after the last
\* frame the rate limiter let pass changes no session (history, frameCount,
\* lastActivity and lastAnalysis stay), leaves the rate limiter's time as it
\* is, and is answered by no posture-analysis and no posture-alert
C18_DroppedFrameNoEffect ==
    [][\A id \in SocketIds :
          (FrameFor(id) /\ now - lastProcessTime[id] < MIN_PROCESS_INTERVAL) =>
              /\ sessions' = sessions
              /\ lastProcessTime' = lastProcessTime
              /\ emitted' = <<>>
              /\ sent' = sent]_vars

\* C18, reached: a socket with analysed frames has just sent a frame less
\* than MIN_PROCESS_INTERVAL after the last one that passed
C18_FrameDropped ==
    /\ "s1" \in DOMAIN sessions
    /\ sessions["s1"].frameCount > 0
    /\ Len(reported["s1"]) > sessions["s1"].frameCount
    /\ env.due = "tick"
    /\ now > lastProcessTime["s1"]
    /\ now - lastProcessTime["s1"] < MIN_PROCESS_INTERVAL
    /\ sessions["s1"].lastActivity = lastProcessTime["s1"]

\* a history with every entry before its last n replaced by `entry`
WithOlder(history, n, entry) ==
    [k \in 1..Len(history) |-> IF k <= Len(history) - n THEN entry ELSE history[k]]

\* entries to put in the place of the older ones: a poor reading and a good one
OlderEntries ==
    IF program = "server.js"
    THEN {[ts |-> 0, score |-> score] : score \in {0, Pts(100)}}
    ELSE {[timestamp |-> 0,
           analysis |-> [R2results EXCEPT !.overallScore = score, !.confidence = 30]] :
          score \in {0, Pts(100)}}

\* C19: the alert decision on a session's history is the decision on any
\* history with the same last 10 entries, whatever the entries before them
C19_OnlyLastTenCount ==
    \A id \in DOMAIN sessions : \A entry \in OlderEntries :
        IF program = "server.js"
        THEN SrvShouldAlert(WithOlder(sessions[id].history, 10, entry))
                 = SrvShouldAlert(sessions[id].history)
        ELSE R2shouldAlert([sessions[id] EXCEPT
                               !.postureHistory = WithOlder(@, 10, entry)])
                 = R2shouldAlert(sessions[id])

\* C19, reached: a history of more than 10 readings, the oldest a good one,
\* on which the decision is to alert
C19_AlertOnLongHistory ==
    /\ program = "server.js"
    /\ "s1" \in DOMAIN sessions
    /\ Len(sessions["s1"].history) > 10
    /\ sessions["s1"].history[1].score >= Pts(60)
    /\ sent["s1"] # <<>>
    /\ emitted # <<>>

\* what the server holds for socket id: its session (<<>> when it has
\* none), its rate limiter's time and the alerts sent to it
Held(id) ==
    <<IF id \in DOMAIN sessions THEN <<sessions[id]>> ELSE <<>>,
      lastProcessTime[id], sent[id]>>

\* C20: a frame delivered to one socket's handler, processed or dropped by
\* the rate limiter, and the disconnection of one socket leave what the
\* server holds for every other socket as it was: session (history,
\* frameCount, lastActivity, lastAnalysis) and rate limiter's time
C20_SessionsIndependent ==
    [][\A id \in SocketIds :
          (FrameFor(id) \/ DisconnectOf(id)) =>
              \A other \in SocketIds \ {id} : Held(other)' = Held(other)]_vars

\* C20, reached: two sockets have sent frames, one after the other or in
\* turn, the first has disconnected and the second has its history
C20_OneGoneOneKept ==
    /\ connected = {"s2"}
    /\ DOMAIN sessions = {"s2"}
    /\ reported["s1"] # <<>>
    /\ History(sessions["s2"]) # <<>>
    /\ env.frames >= 3

\* C21: no session stays in the table once it has had no processed frame
\* (or, without any frame, no connection) for MAX_SESSION_AGE and the sweep
\* period that follows: the sweep has removed it by then, its socket
\* connected or not
C21_IdleSessionSwept ==
    \A id \in DOMAIN sessions :
        LET session == sessions[id]
            lastActive ==
                IF program = "server.js"
                THEN IF session.history = <<>> THEN session.connectedAt
                     ELSE session.history[Len(session.history)].ts
                ELSE session.lastActivity
        IN  now - lastActive <= MAX_SESSION_AGE + SWEEP_PERIOD

\* C22: in part_000 a frame whose shoulders have no width gets forwardHead =
\* false, and a frame whose hips are no more than 0.05 apart gets
\* roundedShoulders = false: no quotient by such a width decides a flag
C22_DegenerateGeometryFallsBack ==
    \A i \in DOMAIN emitted :
        LET e == emitted[i]
            m == R2keypointMap(Analysed(e))
        IN  (e.event = "posture-analysis" /\ Required \subseteq DOMAIN m)
                => /\ m["left_shoulder"].x = m["right_shoulder"].x
                          => ~e.analysis.forwardHead
                   /\ (Hips \subseteq DOMAIN m
                       /\ Abs(m["left_hip"].x - m["right_hip"].x) <= 1)
                          => ~e.analysis.roundedShoulders

\* C23: each Assessment app.js shows is the raw one of its frame while the
\* window holds fewer than 3 entries, and the raw one with only overallScore
\* replaced by 0.7 * raw + 0.3 * window mean otherwise; in both cases it is
\* appended to the window
C23_SmoothPassesOrBlends ==
    [][\A i \in DOMAIN emitted' :
          LET e == emitted'[i]
              current == analyzePosture(e.keypoints, monitor'.calibrationData)
              window == monitor.postureHistory
              blended ==
                  IF Len(window) < 3 THEN current
                  ELSE [current EXCEPT !.overallScore =
                           (7 * @ + 3 * (SumScores(window) \div Len(window))) \div 10]
          IN  e.event = "updateUI"
                  => /\ e.analysis = blended
                     /\ monitor'.postureHistory = addToHistory(window, blended)]_vars

\* C24: the baseline of app.js goes from absent to set only in the handling
\* of a frame with nose, shoulders and hips above the threshold; any other
\* frame leaves it absent, its Assessment is a scored one when nose and
\* shoulders are there, with forwardHead comparing the neck angle with the
\* default baseline of 10 degrees, and the next detectPose is scheduled
C24_CalibrationOrDefaults ==
    [][LET shown == {emitted'[i] : i \in
                        {j \in DOMAIN emitted' : emitted'[j].event = "updateUI"}}
           Full(frame) ==
               /\ ~MissingRequired(frame, 5)
               /\ \A name \in Hips : name \in DOMAIN frame /\ frame[name].score > 5
           OnDefaults(frame, a) ==
               /\ "valid" \in DOMAIN a /\ a.valid
               /\ "metrics" \in DOMAIN a
               /\ a.metrics.forwardHead
                     = (calculateNeckAngle(frame["nose"], frame["left_shoulder"],
                                           frame["right_shoulder"]) > 100 + 50)
       IN  monitor.calibrationData = <<>>
               => /\ monitor'.calibrationData # <<>>
                         => \E e \in shown : Full(e.keypoints)
                  /\ \A e \in shown :
                        ~Full(e.keypoints)
                            => /\ monitor'.calibrationData = <<>>
                               /\ monitor'.stats.totalFrames
                                      = monitor.stats.totalFrames + 1
                               /\ monitor'.scheduled > 0
                               /\ ~MissingRequired(e.keypoints, 5)
                                      => OnDefaults(e.keypoints, e.analysis)]_vars

\* C25: in part_000 the history of every session is as long as the number of
\* frames counted for it, up to the capacity: each frame that is counted is
\* also recorded
C25_HistoryTracksFrameCount ==
    program = R2Name =>
        \A id \in DOMAIN sessions :
            Len(sessions[id].postureHistory)
                = Min(sessions[id].frameCount, POSTURE_HISTORY_MAX)

\* C26: part_000 emits a posture-alert only in handling a frame it counts,
\* the count then being a multiple of 10 and the history holding at least 10
\* entries, and two alerts that follow one another on a socket are at least
\* 10 * MIN_PROCESS_INTERVAL = 1000 ms apart
C26_AlertsTenFramesApart ==
    [][program = R2Name =>
          /\ \A i \in DOMAIN emitted' :
                emitted'[i].event = "posture-alert"
                    => LET id == emitted'[i].to
                       IN  /\ id \in DOMAIN sessions /\ id \in DOMAIN sessions'
                           /\ sessions'[id].frameCount = sessions[id].frameCount + 1
                           /\ sessions'[id].frameCount % 10 = 0
                           /\ Len(sessions'[id].postureHistory) >= 10
          /\ \A id \in SocketIds : \A k \in 1..(Len(sent'[id]) - 1) :
                sent'[id][k + 1] - sent'[id][k] >= 10 * MIN_PROCESS_INTERVAL]_vars

\* C26, reached: a socket of part_000 has been sent a second alert
C26_SecondAlert ==
    /\ program = R2Name
    /\ \E id \in SocketIds :
          /\ Len(sent[id]) >= 2
          /\ \E i \in DOMAIN emitted :
                emitted[i].event = "posture-alert" /\ emitted[i].to = id

\* C27: the monitor of app.js never has more than one detectPose loop going
\* (a call awaiting estimatePoses or a callback requested for the next one)
\* and never has more than one socket open
C27_OneLoopOneSocket ==
    /\ monitor.estimating + monitor.scheduled <= 1
    /\ monitor.sockets <= 1

\* C28: in part_000 the session of a socket that has connected, once removed
\* from the table by the disconnect or by the sweep, is never in the table
\* again, and a frame handled for the socket from then on gets no
\* posture-analysis and no posture-alert
C28_RemovedStaysRemoved ==
    [][program = R2Name =>
          \A id \in env.opened \ DOMAIN sessions :
              /\ id \notin DOMAIN sessions'
              /\ reported'[id] # reported[id]
                     => emitted' = <<>> /\ sent'[id] = sent[id]]_vars

\* C28, reached: the session of a socket that is still connected was swept,
\* and a frame of the socket has passed the rate limit since
C28_FrameOfSweptSession ==
    /\ program = R2Name
    /\ \E id \in connected \ DOMAIN sessions :
          /\ lastProcessTime[id] = now
          /\ now > StartTime + MAX_SESSION_AGE
          /\ emitted = <<>>

====
